---- MODULE Spec2Model ----
(***************************************************************************)
(* Model of OAuthTokenManager.ts: the token store (OAuthTokenManager) and  *)
(* its decision procedure getValidToken; the interactive authorization     *)
(* flow (OAuthGetToken.getToken) and the orchestrator authenticateOAuth.   *)
(*                                                                         *)
(* JavaScript objects are records whose DOMAIN holds exactly the keys that *)
(* are present; an `undefined` property is an absent key.  Times are       *)
(* epoch-milliseconds, as Date.now() returns them.                         *)
(***************************************************************************)
EXTENDS Integers, Sequences, FiniteSets, TLC

VARIABLES
    now,        \* Date.now()
    ticks,      \* number of clock advances so far (bounds the run)
    options,    \* the TokenManagerOptions the store was constructed with
    manager,    \* the constructed store's fields: expirationBuffer, maxTokenLifetime?
    file,       \* content of the token file at tokenPath, or NoFile
    lastAuth,   \* {t}: time of the latest interactive authorization saved; {} if none
    written,    \* TRUE iff the present file content was written by this store object
    pc,         \* position of the in-flight getValidToken: idle, refresh, auth
    call,       \* locals and history of the current / most recent operation
    auth,       \* the authenticateOAuth call: its arguments, credentials, signal
    flow        \* the OAuthGetToken.getToken call made by authenticateOAuth's callback

vars == <<now, ticks, options, manager, file, lastAuth, written, pc, call, auth, flow>>

----------------------------------------------------------------------------
(* Bounds *)

MaxTicks == 3
\* events delivered to a wait that has already settled, per getToken call
MaxLate == 1
\* redirect requests without code and error considered per call
MaxIgnored == 1

----------------------------------------------------------------------------
(* Values *)

Null == [kind |-> "null"]          \* JavaScript null / a promise resolved to null
Throw == [kind |-> "throw"]        \* a raised exception / rejected promise
Pending == [kind |-> "pending"]    \* not returned yet
NoFile == [kind |-> "nofile"]      \* the token file does not exist
Malformed == [kind |-> "malformed"]    \* the file exists, its content is not JSON
Unreadable == [kind |-> "unreadable"]  \* the path exists, reading it fails

Has(obj, key) == key \in DOMAIN obj

\* JavaScript truthiness of an optional numeric / string property
TruthyNum(obj, key) == Has(obj, key) /\ obj[key] # 0
TruthyStr(obj, key) == Has(obj, key) /\ obj[key] # ""

Min(a, b) == IF a <= b THEN a ELSE b

\* the store object is constructed at this time (2h after the earlier run's epoch)
Epoch == 2 * 60 * 60 * 1000

\* the clock advances by 5 minutes or by one hour
TickSteps == {5 * 60 * 1000, 60 * 60 * 1000}

\* interface OAuthToken (refresh_token and scope are optional): the tokens the
\* provider issues and the caller saves
OAuthToken ==
    { [access_token |-> "A", expires_in |-> 7200, token_type |-> "Bearer",
       refresh_token |-> "R1", scope |-> "s"],
      [access_token |-> "B", expires_in |-> 300, token_type |-> "Bearer"],
      [access_token |-> "C", expires_in |-> 600, token_type |-> "Bearer",
       refresh_token |-> "R2"],
      [access_token |-> "D", expires_in |-> 0, token_type |-> "Bearer", scope |-> "s"] }

\* interface TokenManagerOptions (tokenDirectory is given, tokenFileName is immaterial)
TokenManagerOptions ==
    LET base == {[tokenDirectory |-> "dir"]}
    IN  UNION {
          base,
          { ("expirationBufferMinutes" :> m) @@ b : m \in {0, 1}, b \in base },
          { ("maxTokenLifetimeHours" :> h) @@ b : h \in {0, 1}, b \in base },
          { ("expirationBufferMinutes" :> m) @@ ("maxTokenLifetimeHours" :> h) @@ b :
                m \in {0, 1}, h \in {0, 1}, b \in base } }

----------------------------------------------------------------------------
(* OAuthTokenManager *)

\* options that name no directory: new OAuthTokenManager(), an empty directory
\* name, other settings only
NoDirectoryOptions ==
    { << >>, [tokenDirectory |-> ""], [maxTokenLifetimeHours |-> 1] }

\* variant: without a directory the current one is used
constructor_DefaultDirectory(opts) ==
    LET buffer == (IF TruthyNum(opts, "expirationBufferMinutes")
                   THEN opts.expirationBufferMinutes ELSE 5) * 60 * 1000
        fields == [expirationBuffer |-> buffer]
    IN  IF TruthyNum(opts, "maxTokenLifetimeHours")
        THEN ("maxTokenLifetime" :> opts.maxTokenLifetimeHours * 60 * 60 * 1000) @@ fields
        ELSE fields

\* constructor: an exception without tokenDirectory (no object is created), else
\* this.expirationBuffer, this.maxTokenLifetime
constructor(opts) ==
    LET buffer == (IF TruthyNum(opts, "expirationBufferMinutes")
                   THEN opts.expirationBufferMinutes ELSE 5) * 60 * 1000
        fields == [expirationBuffer |-> buffer]
    IN  IF ~TruthyStr(opts, "tokenDirectory")
        THEN Throw
        ELSE IF TruthyNum(opts, "maxTokenLifetimeHours")
             THEN ("maxTokenLifetime" :> opts.maxTokenLifetimeHours * 60 * 60 * 1000) @@ fields
             ELSE fields

\* variant: the optional scope is lost in serialisation
JSONstringify_DropScope(obj) == [k \in DOMAIN obj \ {"scope"} |-> obj[k]]

\* JSON.stringify(storedToken): properties that are undefined are not written
JSONstringify(obj) == [k \in DOMAIN obj |-> obj[k]]

\* JSON.parse(tokenContent): raises a SyntaxError on text that is not JSON
JSONparse(content) ==
    IF content = Malformed THEN Throw ELSE [k \in DOMAIN content |-> content[k]]

\* fs.readFileSync(path, 'utf8'): raises when the path cannot be read
readFileSync(f) == IF f = Unreadable THEN Throw ELSE f

hasStoredToken(f) == f # NoFile

\* variant: no try/catch around reading and parsing
getStoredToken_NoCatch(f) ==
    IF ~hasStoredToken(f) THEN Null
    ELSE IF readFileSync(f) = Throw THEN Throw ELSE JSONparse(readFileSync(f))

getStoredToken(f) ==
    IF ~hasStoredToken(f)
    THEN Null
    ELSE LET tokenContent == readFileSync(f)
             token == IF tokenContent = Throw THEN Throw ELSE JSONparse(tokenContent)
         IN  IF token = Throw THEN Null ELSE token    \* catch (error): return null

\* variant: the expiration buffer is not subtracted
isTokenExpired_NoBuffer(mgr, token, t) ==
    IF ~TruthyNum(token, "expires_at")
    THEN TRUE
    ELSE \/ /\ TruthyNum(mgr, "maxTokenLifetime")
            /\ TruthyNum(token, "created_at")
            /\ t >= token.created_at + mgr.maxTokenLifetime
         \/ t >= token.expires_at

\* variant: only the stored expires_at is consulted
isTokenExpired_NoMaxLifetime(mgr, token, t) ==
    IF ~TruthyNum(token, "expires_at")
    THEN TRUE
    ELSE t >= token.expires_at - mgr.expirationBuffer

isTokenExpired(mgr, token, t) ==
    IF ~TruthyNum(token, "expires_at")
    THEN TRUE
    ELSE \/ /\ TruthyNum(mgr, "maxTokenLifetime")
            /\ TruthyNum(token, "created_at")
            /\ t >= (token.created_at + mgr.maxTokenLifetime) - mgr.expirationBuffer
         \/ t >= token.expires_at - mgr.expirationBuffer

isTokenValid(mgr, f, t) ==
    LET token == getStoredToken(f)
    IN  IF token = Null THEN FALSE ELSE ~isTokenExpired(mgr, token, t)

\* variant: the server's expiration is stored whatever the maximum lifetime
saveToken_ServerOnly(mgr, token, t) ==
    JSONstringify(("created_at" :> t) @@ ("expires_at" :> t + (token.expires_in * 1000)) @@ token)

\* variant: the record is written without the refresh token
saveToken_DropRefreshToken(mgr, token, t) ==
    LET serverExpiresAt == t + (token.expires_in * 1000)
        expiresAt == IF TruthyNum(mgr, "maxTokenLifetime")
                     THEN Min(serverExpiresAt, t + mgr.maxTokenLifetime)
                     ELSE serverExpiresAt
        storedToken == ("created_at" :> t) @@ ("expires_at" :> expiresAt) @@ token
    IN  JSONstringify([k \in DOMAIN storedToken \ {"refresh_token"} |-> storedToken[k]])

\* the content saveToken writes to the token file
saveToken(mgr, token, t) ==
    LET serverExpiresAt == t + (token.expires_in * 1000)
        expiresAt == IF TruthyNum(mgr, "maxTokenLifetime")
                     THEN Min(serverExpiresAt, t + mgr.maxTokenLifetime)
                     ELSE serverExpiresAt
        storedToken == ("created_at" :> t) @@ ("expires_at" :> expiresAt) @@ token
    IN  JSONstringify(storedToken)

\* variant: the file is never unlinked
deleteStoredToken_Keep(f) == f

deleteStoredToken(f) == IF hasStoredToken(f) THEN NoFile ELSE f

\* getTokenInfo: properties whose value is undefined are left out
getTokenInfo(mgr, f, t) ==
    LET token == getStoredToken(f)
    IN  IF token = Null
        THEN [exists |-> FALSE, valid |-> FALSE]
        ELSE [ exists |-> TRUE,
               valid |-> ~isTokenExpired(mgr, token, t),
               hasRefreshToken |-> TruthyStr(token, "refresh_token") ]
             @@ (IF TruthyNum(token, "expires_at") THEN "expiresAt" :> token.expires_at ELSE << >>)
             @@ (IF TruthyNum(token, "created_at") THEN "createdAt" :> token.created_at ELSE << >>)

\* outcomes of the fetch in refreshToken: 2xx with a JSON token body, non-2xx
\* status, rejected fetch (transport error), 2xx with a body that is not JSON
RefreshOutcomes == {"ok", "http_error", "transport_error", "bad_body"}

\* what the token endpoint answers: a token body on success, no token otherwise
RefreshResponses ==
    {[outcome |-> "ok", body |-> b] : b \in OAuthToken}
    \cup {[outcome |-> o, body |-> [error |-> "invalid_grant"]] : o \in RefreshOutcomes \ {"ok"}}

\* variant: the status of the response is not looked at
refreshToken_StatusIgnored(outcome, body) ==
    CASE outcome = "ok"              -> body
      [] outcome = "http_error"      -> body
      [] outcome = "transport_error" -> Null
      [] outcome = "bad_body"        -> Null

\* variant: a rejected fetch is not caught
refreshToken_Rethrow(outcome, body) ==
    CASE outcome = "ok"              -> body
      [] outcome = "http_error"      -> Null
      [] outcome = "transport_error" -> Throw
      [] outcome = "bad_body"        -> Null

\* refreshToken: the value the returned promise settles to.  Some outcomes
\* give the same value, so the RefreshSettles steps they enable coincide.
refreshToken(outcome, body) ==
    CASE outcome = "ok"              -> body
      [] outcome = "http_error"      -> Null      \* !response.ok
      [] outcome = "transport_error" -> Null      \* catch (error)
      [] outcome = "bad_body"        -> Null      \* response.json() rejects, catch (error)

----------------------------------------------------------------------------
(* State *)

\* token files left by an earlier run of the program, which saved at PriorTime
\* without a maximum lifetime; and files of older formats without metadata
PriorTime == Epoch - 30 * 60 * 1000

PriorTokens ==
    { [access_token |-> "P", expires_in |-> 7200, token_type |-> "Bearer"],
      [access_token |-> "P", expires_in |-> 7200, token_type |-> "Bearer", refresh_token |-> "R0"],
      [access_token |-> "P", expires_in |-> 600, token_type |-> "Bearer", refresh_token |-> "R0"] }

Without(obj, keys) == [k \in DOMAIN obj \ keys |-> obj[k]]

PriorFiles ==
    LET saved == { saveToken([expirationBuffer |-> 5 * 60 * 1000], t, PriorTime) : t \in PriorTokens }
    IN  saved \cup { Without(f, {"created_at"}) : f \in saved }
              \cup { Without(f, {"created_at", "expires_at"}) : f \in saved }

\* ---- credentials and the arguments of authenticateOAuth ----

Undefined == [kind |-> "undefined"]    \* the value of a property that is not there

\* a complete OAuthCredentials object
FlatCredentials ==
    [ client_id |-> "id", client_secret |-> "secret", auth_uri |-> "auth",
      token_uri |-> "token",
      redirect_uris |-> <<"http://localhost:8080", "http://localhost:9090">> ]

\* credentials documents: flat, nested under installed / web, incomplete ones,
\* and ones without a usable redirect URI
CredentialDocs ==
    { FlatCredentials,
      [installed |-> FlatCredentials],
      [web |-> FlatCredentials],
      Without(FlatCredentials, {"client_secret"}),
      [FlatCredentials EXCEPT !.client_id = ""],
      Without(FlatCredentials, {"redirect_uris"}),
      [FlatCredentials EXCEPT !.redirect_uris = << >>] }

\* credentialsPathOrData: an object, or the path of a file with some content
CredentialSources ==
    {[form |-> "object", doc |-> d] : d \in CredentialDocs}
    \cup {[form |-> "file", doc |-> d] : d \in CredentialDocs \cup {NoFile, Malformed}}

OptField(key, vals) == {<< >>} \cup {key :> v : v \in vals}

DefaultAuthOptions == [scope |-> "s", signal |-> TRUE]

\* the options argument of authenticateOAuth
AuthOptions ==
    {DefaultAuthOptions @@ a @@ b :
        a \in OptField("includeOfflineAccess", {TRUE, FALSE}),
        b \in OptField("prompt", {"select_account"})}
    \cup {DefaultAuthOptions @@ [timeoutSeconds |-> 600], [scope |-> "s"],
          DefaultAuthOptions @@ [tokenDirectory |-> "dir"],
          DefaultAuthOptions @@ [maxTokenLifetimeHours |-> 1]}

\* the calls considered: every source and key with the default options, and
\* every option combination with flat in-memory credentials
AuthInputs ==
    {[source |-> src, opts |-> DefaultAuthOptions @@ k] :
        src \in CredentialSources, k \in OptField("credentialsKey", {"installed"})}
    \cup {[source |-> [form |-> "object", doc |-> FlatCredentials], opts |-> o] :
              o \in AuthOptions}

hasRequiredFields(credentials) ==
    /\ TruthyStr(credentials, "client_id")
    /\ TruthyStr(credentials, "client_secret")
    /\ TruthyStr(credentials, "auth_uri")
    /\ TruthyStr(credentials, "token_uri")

\* OAuthGetToken.loadCredentialsFromFile(filePath, credentialsKey): the file has
\* content f; any exception inside the try block gives null
loadCredentialsFromFile(f, opts) ==
    IF f = NoFile
    THEN Null
    ELSE LET credentialsJson == JSONparse(f)
             credentials ==
                 IF credentialsJson = Throw THEN Throw
                 ELSE IF TruthyStr(opts, "credentialsKey")
                      THEN IF Has(credentialsJson, opts.credentialsKey)
                           THEN credentialsJson[opts.credentialsKey]
                           ELSE Undefined
                      ELSE credentialsJson
         IN  IF credentials = Throw THEN Null
             ELSE IF credentials = Undefined THEN Null   \* TypeError reading client_id
             ELSE IF ~hasRequiredFields(credentials) THEN Null
             ELSE credentials

\* authenticateOAuth, the credentials of an in-memory object
objectCredentials(doc, opts) ==
    IF TruthyStr(opts, "credentialsKey") /\ Has(doc, opts.credentialsKey)
    THEN doc[opts.credentialsKey]
    ELSE IF Has(doc, "installed") THEN doc.installed
    ELSE IF Has(doc, "web") THEN doc.web
    ELSE doc

\* authenticateOAuth, `credentials` before its validation; null when the file did not load
resolveCredentials(source, opts) ==
    IF source.form = "file"
    THEN loadCredentialsFromFile(source.doc, opts)
    ELSE objectCredentials(source.doc, opts)

\* no authenticateOAuth call has been made
NoAuth ==
    [ op |-> "none", source |-> Null, opts |-> Null, resolved |-> Null,
      credentials |-> Null, storeReads |-> 0, signal |-> "none",
      abortedBeforeWait |-> FALSE, ret |-> Pending ]

\* authorization code held by no one (null)
NoCode == "null"

\* no getToken call has been made
NoFlow ==
    [ pc |-> "none", options |-> Null, started |-> 0,
      server |-> "none", authParams |-> Null,
      timer |-> "none", deadline |-> 0, abortListener |-> FALSE, handler |-> FALSE,
      promise |-> [settled |-> FALSE, value |-> NoCode],
      first |-> [kind |-> "none", value |-> NoCode], late |-> 0, ignored |-> 0,
      unheard |-> NoCode,
      waitStart |-> 0, waitEnd |-> 0, abortedWaiting |-> FALSE, abortAt |-> 0,
      authCode |-> "unset", exchange |-> Null, exchanges |-> 0,
      exchangeOutcome |-> "none", result |-> Pending ]

NoCall ==
    [ op |-> "none", hasCallback |-> FALSE, preFile |-> NoFile, preNow |-> 0,
      existingToken |-> Null, events |-> << >>, refreshOutcome |-> "none",
      refreshed |-> Null, callbackResult |-> Pending, saved |-> Null, ret |-> Pending ]

Init ==
    /\ now = Epoch
    /\ ticks = 0
    /\ options \in TokenManagerOptions \cup NoDirectoryOptions
    /\ manager = constructor(options)
    /\ file \in {NoFile, Malformed, Unreadable} \cup PriorFiles
    /\ lastAuth = {}
    /\ written = FALSE
    /\ pc = "idle"
    /\ call = NoCall
    /\ auth = NoAuth
    /\ flow = NoFlow

----------------------------------------------------------------------------
(* Operations *)

\* the wait has settled and getToken has not resumed yet: the continuation of
\* `await this.waitForOAuthCallback(...)` runs before any other event is handled
ContinuationPending == flow.pc = "waiting" /\ flow.promise.settled

\* time passes (also while a getValidToken call is awaiting)
Tick ==
    /\ ticks < MaxTicks
    /\ manager # Throw
    /\ ~ContinuationPending
    /\ \E d \in TickSteps :
          /\ flow.timer = "armed" => now + d <= flow.deadline   \* a due timer runs first
          /\ now' = now + d
    /\ ticks' = ticks + 1
    /\ call' = IF pc = "idle" THEN [NoCall EXCEPT !.op = "tick"] ELSE call
    /\ UNCHANGED <<options, manager, file, lastAuth, written, pc, auth, flow>>

\* the caller stores a token it obtained itself: tokenManager.saveToken(token)
SaveToken ==
    /\ pc = "idle"
    /\ manager # Throw
    /\ \E token \in OAuthToken :
          /\ file' = saveToken(manager, token, now)
          /\ call' = [NoCall EXCEPT !.op = "saveToken", !.preFile = file, !.preNow = now,
                                     !.saved = token, !.ret = Null]
    /\ lastAuth' = {now}
    /\ written' = TRUE
    /\ UNCHANGED <<now, ticks, options, manager, pc, auth, flow>>

DeleteStoredToken ==
    /\ pc = "idle"
    /\ manager # Throw
    /\ file' = deleteStoredToken(file)
    /\ call' = [NoCall EXCEPT !.op = "deleteStoredToken", !.preFile = file, !.preNow = now,
                               !.ret = Null]
    /\ lastAuth' = {}
    /\ written' = FALSE
    /\ UNCHANGED <<now, ticks, options, manager, pc, auth, flow>>

\* the caller asks for the state of the store: tokenManager.getTokenInfo()
GetTokenInfo ==
    /\ pc = "idle"
    /\ manager # Throw
    /\ auth.op = "none"
    /\ call' = [NoCall EXCEPT !.op = "getTokenInfo", !.preFile = file, !.preNow = now,
                              !.ret = getTokenInfo(manager, file, now)]
    /\ UNCHANGED <<now, ticks, options, manager, file, lastAuth, written, pc, auth, flow>>

\* the caller refreshes by hand: await tokenManager.refreshToken(client, refreshToken);
\* the call and the settling of its fetch, nothing else is done in between
RefreshToken ==
    /\ pc = "idle"
    /\ manager # Throw
    /\ auth.op = "none"
    /\ \E response \in RefreshResponses :
          call' = [NoCall EXCEPT !.op = "refreshToken", !.preFile = file, !.preNow = now,
                                 !.events = <<"refresh">>,
                                 !.refreshOutcome = response.outcome,
                                 !.refreshed = response.body,
                                 !.ret = refreshToken(response.outcome, response.body)]
    /\ UNCHANGED <<now, ticks, options, manager, file, lastAuth, written, pc, auth, flow>>

\* variant: the callback is ignored
authenticationStep_Never(hasCallback) == "null"

\* getValidToken after the refresh attempt, if any: "No valid token available,
\* call authentication callback if provided", else return null
authenticationStep(hasCallback) ==
    IF hasCallback THEN "callback" ELSE "null"

\* variant: a stored refresh token is used without looking at the expiry
firstStep_SkipValidity(mgr, existingToken, t, hasCallback) ==
    IF existingToken # Null
    THEN IF TruthyStr(existingToken, "refresh_token")
         THEN "refresh"
         ELSE IF ~isTokenExpired(mgr, existingToken, t)
              THEN "return"
              ELSE authenticationStep(hasCallback)
    ELSE authenticationStep(hasCallback)

\* variant: an expired token goes to the callback when there is one, and is
\* refreshed only without a callback
firstStep_CallbackFirst(mgr, existingToken, t, hasCallback) ==
    IF existingToken # Null
    THEN IF ~isTokenExpired(mgr, existingToken, t)
         THEN "return"
         ELSE IF hasCallback
              THEN "callback"
              ELSE IF TruthyStr(existingToken, "refresh_token")
                   THEN "refresh"
                   ELSE "null"
    ELSE authenticationStep(hasCallback)

\* getValidToken up to its first await or return: what it does with the token
\* that getStoredToken gave
firstStep(mgr, existingToken, t, hasCallback) ==
    IF existingToken # Null
    THEN IF ~isTokenExpired(mgr, existingToken, t)
         THEN "return"
         ELSE IF TruthyStr(existingToken, "refresh_token")
              THEN "refresh"
              ELSE authenticationStep(hasCallback)
    ELSE authenticationStep(hasCallback)

\* getValidToken, from its entry to its first await or return.
\* hasCallback: whether onAuthenticationNeeded was supplied.
getValidTokenEntry(mgr, hasCallback) ==
        LET existingToken == getStoredToken(file)
            step == firstStep(mgr, existingToken, now, hasCallback)
            entry == [NoCall EXCEPT !.op = "getValidToken", !.hasCallback = hasCallback,
                                    !.preFile = file, !.preNow = now,
                                    !.existingToken = existingToken]
        IN  CASE existingToken = Throw ->
                   \* an exception of getStoredToken would propagate
                   /\ pc' = "idle"
                   /\ call' = [entry EXCEPT !.ret = Throw]
              [] existingToken # Throw /\ step = "return" ->
                   /\ pc' = "idle"
                   /\ call' = [entry EXCEPT !.ret = existingToken]
              [] existingToken # Throw /\ step = "refresh" ->
                   \* await this.refreshToken(client, existingToken.refresh_token)
                   /\ pc' = "refresh"
                   /\ call' = [entry EXCEPT !.events = <<"refresh">>]
              [] existingToken # Throw /\ step = "callback" ->
                   \* await onAuthenticationNeeded()
                   /\ pc' = "auth"
                   /\ call' = [entry EXCEPT !.events = <<"callback">>]
              [] existingToken # Throw /\ step = "null" ->
                   /\ pc' = "idle"
                   /\ call' = [entry EXCEPT !.ret = Null]

\* a caller invokes tokenManager.getValidToken(client, onAuthenticationNeeded?)
GetValidTokenCall ==
    /\ pc = "idle"
    /\ manager # Throw
    /\ auth.op = "none"
    /\ \E hasCallback \in BOOLEAN : getValidTokenEntry(manager, hasCallback)
    /\ UNCHANGED <<now, ticks, options, manager, file, lastAuth, written, auth, flow>>

\* variant: the refresh response is saved as it came
preserveRefreshToken_Drop(refreshedToken, existingToken) == refreshedToken

\* refreshedToken.refresh_token = existingToken.refresh_token, when the response has none
preserveRefreshToken(refreshedToken, existingToken) ==
    IF ~TruthyStr(refreshedToken, "refresh_token") /\ TruthyStr(existingToken, "refresh_token")
    THEN ("refresh_token" :> existingToken.refresh_token) @@ refreshedToken
    ELSE refreshedToken

\* getValidToken, resumed when the promise of refreshToken settles
RefreshSettles ==
    /\ pc = "refresh"
    /\ \E outcome \in RefreshOutcomes, body \in OAuthToken :
        LET refreshedToken == refreshToken(outcome, body)
            settled == [call EXCEPT !.refreshOutcome = outcome, !.refreshed = refreshedToken]
        IN  CASE refreshedToken = Throw ->
                   \* a rejection of refreshToken would propagate out of getValidToken
                   /\ pc' = "idle"
                   /\ call' = [settled EXCEPT !.ret = Throw]
                   /\ UNCHANGED <<file, written>>
              [] refreshedToken # Throw /\ refreshedToken # Null ->
                   LET token == preserveRefreshToken(refreshedToken, call.existingToken)
                   IN  /\ file' = saveToken(manager, token, now)
                       /\ written' = TRUE
                       /\ pc' = "idle"
                       /\ call' = [settled EXCEPT !.events = Append(@, "save"),
                                                  !.saved = token, !.ret = token]
              [] OTHER ->
                   /\ UNCHANGED <<file, written>>
                   /\ IF authenticationStep(call.hasCallback) = "callback"
                      THEN /\ pc' = "auth"
                           /\ call' = [settled EXCEPT !.events = Append(@, "callback")]
                      ELSE /\ pc' = "idle"
                           /\ call' = [settled EXCEPT !.ret = Null]
    /\ UNCHANGED <<now, ticks, options, manager, lastAuth, auth, flow>>

\* variant: the stored refresh token is kept when the callback's token has none
callbackSettled_CarryForward(newToken) ==
    CASE newToken = Throw ->
           /\ pc' = "idle"
           /\ call' = [call EXCEPT !.callbackResult = Throw, !.ret = Throw]
           /\ UNCHANGED <<file, lastAuth, written>>
      [] newToken = Null ->
           /\ pc' = "idle"
           /\ call' = [call EXCEPT !.callbackResult = Null, !.ret = Null]
           /\ UNCHANGED <<file, lastAuth, written>>
      [] OTHER ->
           /\ file' = IF call.existingToken # Null /\ Has(call.existingToken, "refresh_token")
                      THEN ("refresh_token" :> call.existingToken.refresh_token)
                           @@ saveToken(manager, newToken, now)
                      ELSE saveToken(manager, newToken, now)
           /\ lastAuth' = {now}
           /\ written' = TRUE
           /\ pc' = "idle"
           /\ call' = [call EXCEPT !.callbackResult = newToken,
                                   !.events = Append(@, "save"),
                                   !.saved = newToken, !.ret = newToken]

\* variant: the record is removed when the callback yields no token
callbackSettled_DeleteOnFailure(newToken) ==
    CASE newToken = Throw ->
           /\ pc' = "idle"
           /\ call' = [call EXCEPT !.callbackResult = Throw, !.ret = Throw]
           /\ UNCHANGED <<file, lastAuth, written>>
      [] newToken = Null ->
           /\ pc' = "idle"
           /\ call' = [call EXCEPT !.callbackResult = Null, !.ret = Null]
           /\ file' = NoFile
           /\ UNCHANGED <<lastAuth, written>>
      [] OTHER ->
           /\ file' = saveToken(manager, newToken, now)
           /\ lastAuth' = {now}
           /\ written' = TRUE
           /\ pc' = "idle"
           /\ call' = [call EXCEPT !.callbackResult = newToken,
                                   !.events = Append(@, "save"),
                                   !.saved = newToken, !.ret = newToken]

\* variant: a callback that yielded no token is invoked once more
callbackSettled_RetryOnce(newToken) ==
    CASE newToken = Throw ->
           /\ pc' = "idle"
           /\ call' = [call EXCEPT !.callbackResult = Throw, !.ret = Throw]
           /\ UNCHANGED <<file, lastAuth, written>>
      [] newToken = Null /\ Len(SelectSeq(call.events, LAMBDA e : e = "callback")) < 2 ->
           /\ pc' = "auth"
           /\ call' = [call EXCEPT !.callbackResult = Null, !.events = Append(@, "callback")]
           /\ UNCHANGED <<file, lastAuth, written>>
      [] newToken = Null /\ Len(SelectSeq(call.events, LAMBDA e : e = "callback")) >= 2 ->
           /\ pc' = "idle"
           /\ call' = [call EXCEPT !.callbackResult = Null, !.ret = Null]
           /\ UNCHANGED <<file, lastAuth, written>>
      [] OTHER ->
           /\ file' = saveToken(manager, newToken, now)
           /\ lastAuth' = {now}
           /\ written' = TRUE
           /\ pc' = "idle"
           /\ call' = [call EXCEPT !.callbackResult = newToken,
                                   !.events = Append(@, "save"),
                                   !.saved = newToken, !.ret = newToken]

\* getValidToken, resumed when the promise of onAuthenticationNeeded settles
\* with newToken: a token, null, or a rejection
callbackSettled(newToken) ==
    CASE newToken = Throw ->
           /\ pc' = "idle"
           /\ call' = [call EXCEPT !.callbackResult = Throw, !.ret = Throw]
           /\ UNCHANGED <<file, lastAuth, written>>
      [] newToken = Null ->
           /\ pc' = "idle"
           /\ call' = [call EXCEPT !.callbackResult = Null, !.ret = Null]
           /\ UNCHANGED <<file, lastAuth, written>>
      [] OTHER ->
           /\ file' = saveToken(manager, newToken, now)
           /\ lastAuth' = {now}
           /\ written' = TRUE
           /\ pc' = "idle"
           /\ call' = [call EXCEPT !.callbackResult = newToken,
                                   !.events = Append(@, "save"),
                                   !.saved = newToken, !.ret = newToken]

\* a callback supplied by a caller of getValidToken: yields a token, null, or rejects
CallbackSettles ==
    /\ pc = "auth"
    /\ auth.op = "none"
    /\ \E newToken \in OAuthToken \cup {Null, Throw} : callbackSettled(newToken)
    /\ UNCHANGED <<now, ticks, options, manager, auth, flow>>

\* ---- authenticateOAuth and the interactive flow ----

\* authenticateOAuth: options.includeOfflineAccess !== false
wantOfflineAccess(opts) == ~(Has(opts, "includeOfflineAccess") /\ ~opts.includeOfflineAccess)

\* variant: consent is forced only when a stored token lacks its refresh token
effectivePrompt_NeedsRefreshTokenOnly(opts, f) ==
    LET storedToken == getStoredToken(f)
    IN  IF TruthyStr(opts, "prompt") THEN "prompt" :> opts.prompt
        ELSE IF wantOfflineAccess(opts) /\ storedToken # Null /\ ~TruthyStr(storedToken, "refresh_token")
             THEN "prompt" :> "consent"
             ELSE << >>

\* variant: consent is forced whenever no refresh token is stored, whatever the
\* caller's prompt
effectivePrompt_ConsentOverrides(opts, f) ==
    LET storedToken == getStoredToken(f)
    IN  IF wantOfflineAccess(opts) /\ (storedToken = Null \/ ~TruthyStr(storedToken, "refresh_token"))
        THEN "prompt" :> "consent"
        ELSE IF TruthyStr(opts, "prompt") THEN "prompt" :> opts.prompt ELSE << >>

\* authenticateOAuth's callback: the prompt property of authOptions (none when undefined)
effectivePrompt(opts, f) ==
    LET storedToken == getStoredToken(f)
    IN  IF TruthyStr(opts, "prompt") THEN "prompt" :> opts.prompt
        ELSE IF wantOfflineAccess(opts) /\ (storedToken = Null \/ ~TruthyStr(storedToken, "refresh_token"))
             THEN "prompt" :> "consent"
             ELSE << >>

\* authenticateOAuth's callback: authOptions, the argument of getToken
authOptions(opts, f) ==
    [ scope |-> opts.scope,
      timeoutSeconds |-> IF TruthyNum(opts, "timeoutSeconds") THEN opts.timeoutSeconds ELSE 300,
      includeOfflineAccess |-> wantOfflineAccess(opts) ]
    @@ effectivePrompt(opts, f)
    @@ (IF Has(opts, "signal") THEN "signal" :> TRUE ELSE << >>)

\* getToken: the query parameters of the authorization URL
authParams(credentials, o) ==
    [ client_id |-> credentials.client_id,
      redirect_uri |-> credentials.redirect_uris[1],
      scope |-> o.scope,
      response_type |-> "code" ]
    @@ (IF o.includeOfflineAccess THEN "access_type" :> "offline" ELSE << >>)
    @@ (IF TruthyStr(o, "prompt") THEN "prompt" :> o.prompt ELSE << >>)

\* process.cwd()
Cwd == "cwd"

\* authenticateOAuth: the options it constructs its OAuthTokenManager with
tokenManagerOptions(opts) ==
    [ tokenDirectory |-> IF TruthyStr(opts, "tokenDirectory") THEN opts.tokenDirectory ELSE Cwd,
      tokenFileName |-> IF TruthyStr(opts, "tokenFileName")
                        THEN opts.tokenFileName ELSE "oauth-token.json" ]
    @@ (IF Has(opts, "maxTokenLifetimeHours")
        THEN "maxTokenLifetimeHours" :> opts.maxTokenLifetimeHours ELSE << >>)

\* authenticateOAuth, from its entry to its first await or return
AuthenticateOAuthCall ==
    /\ pc = "idle"
    /\ auth.op = "none"
    /\ \E in \in AuthInputs :
        LET credentials == resolveCredentials(in.source, in.opts)
            entry == [NoAuth EXCEPT !.op = "authenticateOAuth", !.source = in.source,
                                    !.opts = in.opts, !.resolved = credentials,
                                    !.signal = IF Has(in.opts, "signal") THEN "idle" ELSE "none"]
        IN  IF credentials = Null \/ ~hasRequiredFields(credentials)
            THEN /\ auth' = [entry EXCEPT !.ret = Null]
                 /\ call' = [NoCall EXCEPT !.op = "authenticateOAuth",
                                           !.preFile = file, !.preNow = now]
                 /\ pc' = "idle"
                 /\ UNCHANGED <<options, manager>>
            ELSE \* new OAuthTokenManager({...}); the stored token is read once by
                 \* authenticateOAuth and once by getValidToken
                 /\ options' = tokenManagerOptions(in.opts)
                 /\ manager' = constructor(options')
                 /\ auth' = [entry EXCEPT !.credentials = credentials, !.storeReads = 2]
                 /\ getValidTokenEntry(manager', TRUE)
    /\ flow' = NoFlow
    /\ UNCHANGED <<now, ticks, file, lastAuth, written>>

\* the callback passed to getValidToken runs, and getToken up to its first await
CallbackStarts ==
    /\ pc = "auth"
    /\ auth.op = "authenticateOAuth"
    /\ flow.pc = "none"
    /\ LET o == authOptions(auth.opts, file)
           entered == [NoFlow EXCEPT !.options = o, !.started = now]
       IN  IF ~Has(auth.credentials, "redirect_uris")
           THEN \* this.credentials.redirect_uris[0] raises a TypeError outside the try
                /\ flow' = [entered EXCEPT !.pc = "done", !.result = Throw]
                /\ callbackSettled(Throw)
           ELSE /\ flow' = [entered EXCEPT !.pc = "starting"]
                /\ UNCHANGED <<pc, call, file, lastAuth, written>>
    /\ auth' = [auth EXCEPT !.storeReads =
                   IF ~TruthyStr(auth.opts, "prompt") /\ wantOfflineAccess(auth.opts)
                   THEN @ + 1 ELSE @]
    /\ UNCHANGED <<now, ticks, options, manager>>

\* variant: the finally block leaves the listener as it is
finallyClose_Skip(server) == server

\* getToken's finally block: if (server!) server.close()
finallyClose(server) == IF server = "listening" THEN "closed" ELSE server

\* variant: a failed bind is logged and getToken goes on
ListenerSettles_ContinueOnFailure ==
    /\ pc = "auth"
    /\ flow.pc = "starting"
    /\ \E bound \in BOOLEAN :
          IF Len(auth.credentials.redirect_uris) > 0
          THEN /\ flow' = [flow EXCEPT !.pc = "opening",
                                       !.server = IF bound THEN "listening" ELSE "failed",
                                       !.authParams = authParams(auth.credentials, flow.options)]
               /\ UNCHANGED <<pc, call, file, lastAuth, written>>
          ELSE /\ flow' = [flow EXCEPT !.pc = "done", !.result = Null]
               /\ callbackSettled(Null)
    /\ UNCHANGED <<now, ticks, options, manager, auth>>

\* getToken, resumed when the promise of startLocalOAuthServer settles:
\* listening, or rejected (the port cannot be bound, or the redirect URI is no URL)
ListenerSettles ==
    /\ pc = "auth"
    /\ flow.pc = "starting"
    /\ \E bound \in BOOLEAN :
          IF bound /\ Len(auth.credentials.redirect_uris) > 0
          THEN /\ flow' = [flow EXCEPT !.pc = "opening", !.server = "listening",
                                       !.authParams = authParams(auth.credentials, flow.options)]
               /\ UNCHANGED <<pc, call, file, lastAuth, written>>
          ELSE \* catch: return null; `server` was never assigned
               /\ flow' = [flow EXCEPT
                              !.pc = "done", !.result = Null,
                              !.server = finallyClose(IF bound THEN "none" ELSE "failed")]
               /\ callbackSettled(Null)
    /\ UNCHANGED <<now, ticks, options, manager, auth>>

\* waitForOAuthCallback: setTimeout(..., timeoutSeconds * 1000)
armTimer(f, timeoutSeconds, t) ==
    [f EXCEPT !.timer = "armed", !.deadline = t + timeoutSeconds * 1000]

\* getToken, resumed when openBrowser has settled (it never rejects); the
\* executor of waitForOAuthCallback arms the timer and registers its listeners
BrowserSettles ==
    /\ pc = "auth"
    /\ flow.pc = "opening"
    /\ LET timeoutSeconds == IF TruthyNum(flow.options, "timeoutSeconds")
                             THEN flow.options.timeoutSeconds ELSE 300
       IN  flow' = [armTimer(flow, timeoutSeconds, now) EXCEPT
                       !.pc = "waiting", !.waitStart = now,
                       !.abortListener = Has(flow.options, "signal"),
                       !.handler = TRUE]
    /\ UNCHANGED <<now, ticks, options, manager, file, lastAuth, written, pc, call, auth>>

\* variant: resolve called on a settled promise replaces its value
resolve_Overwrite(promise, value) == [settled |-> TRUE, value |-> value]

\* the resolve function of the promise of waitForOAuthCallback: a promise settles once
resolve(promise, value) ==
    IF promise.settled THEN promise ELSE [settled |-> TRUE, value |-> value]

\* clearTimeout(timeout)
clearTimeout(timer) == IF timer = "armed" THEN "cleared" ELSE timer

\* a terminal event of kind `kind` calls resolve(value) at time t; `first`
\* remembers the first such event of the call, `late` counts the later ones
terminalEvent(f, kind, value, t) ==
    [f EXCEPT !.promise = resolve(@, value),
              !.first = IF f.first.kind = "none" THEN [kind |-> kind, value |-> value] ELSE @,
              !.waitEnd = IF f.first.kind = "none" THEN t ELSE @,
              !.late = IF f.first.kind = "none" THEN @ ELSE @ + 1]

\* an event may still be delivered to the handlers of this getToken call
MayDeliver ==
    /\ pc = "auth"
    /\ ~ContinuationPending
    /\ flow.first.kind # "none" => flow.late < MaxLate

AuthCodes == {"c1", "c2"}

\* the query parameters of a request to the listener: code=..., error=..., none
\* of the two (another path, /favicon.ico), an empty code
Queries ==
    {[code |-> c] : c \in AuthCodes} \cup {[error |-> "access_denied"], << >>, [code |-> ""]}

\* the request carries a code or an error
IsTerminal(query) == TruthyStr(query, "code") \/ TruthyStr(query, "error")

\* variant: a request without code and error ends the wait without a code
onRequest_OtherEndsWait(f, query, t) ==
    IF TruthyStr(query, "code")
    THEN [terminalEvent(f, "code", query.code, t) EXCEPT !.timer = clearTimeout(@)]
    ELSE IF TruthyStr(query, "error")
    THEN [terminalEvent(f, "error", NoCode, t) EXCEPT !.timer = clearTimeout(@)]
    ELSE [f EXCEPT !.promise = resolve(@, NoCode), !.timer = clearTimeout(@),
                   !.ignored = @ + 1]

\* the 'request' handler of waitForOAuthCallback at time t: if (query.code) ...
\* else if (query.error) ...; any other request runs neither branch (`ignored`
\* counts them: nothing is resolved, no response is written)
onRequest(f, query, t) ==
    IF TruthyStr(query, "code")
    THEN [terminalEvent(f, "code", query.code, t) EXCEPT !.timer = clearTimeout(@)]
    ELSE IF TruthyStr(query, "error")
    THEN [terminalEvent(f, "error", NoCode, t) EXCEPT !.timer = clearTimeout(@)]
    ELSE [f EXCEPT !.ignored = @ + 1]

\* the 'request' handler of waitForOAuthCallback runs for a request to the
\* listener; after server.close() requests can still come in on connections that
\* were open already
RedirectRequest ==
    /\ MayDeliver
    /\ flow.server \in {"listening", "closed"}
    /\ IF flow.handler
       THEN \E query \in Queries :
               /\ IsTerminal(query) \/ flow.ignored < MaxIgnored
               /\ flow' = onRequest(flow, query, now)
       ELSE \* http.createServer() has no 'request' listener until
            \* waitForOAuthCallback adds one: the event is emitted to nobody, the
            \* request gets no response (`unheard` remembers its code; one code
            \* stands for all, nothing reads it)
            \E code \in {"c1"} :
               /\ flow.unheard = NoCode
               /\ flow' = [flow EXCEPT !.unheard = code]
    /\ UNCHANGED <<now, ticks, options, manager, file, lastAuth, written, pc, call, auth>>

\* variant: the timer's callback does not resolve the wait
onTimeout_NoResolve(f, t) == f

\* the callback of setTimeout in waitForOAuthCallback: resolve(null)
onTimeout(f, t) == terminalEvent(f, "timeout", NoCode, t)

\* the timer of waitForOAuthCallback expires
TimerFires ==
    /\ MayDeliver
    /\ flow.timer = "armed"
    /\ now >= flow.deadline
    /\ flow' = [onTimeout(flow, now) EXCEPT !.timer = "fired"]
    /\ UNCHANGED <<now, ticks, options, manager, file, lastAuth, written, pc, call, auth>>

\* variant: waitForOAuthCallback does not listen to the signal
onAbort_Ignore(f, t) == f

\* the 'abort' listener of waitForOAuthCallback: clearTimeout(timeout); resolve(null)
onAbort(f, t) ==
    [terminalEvent(f, "abort", NoCode, t) EXCEPT !.timer = clearTimeout(@)]

\* the owner of the AbortController aborts while the callback is running
Abort ==
    /\ MayDeliver
    /\ auth.signal = "idle"
    /\ auth' = [auth EXCEPT !.signal = "aborted",
                            \* for the properties: raised before waitForOAuthCallback
                            \* registered its 'abort' listener
                            !.abortedBeforeWait = flow.pc \in {"none", "starting", "opening"}]
    /\ flow' = [(IF flow.abortListener THEN onAbort(flow, now) ELSE flow) EXCEPT
                   \* for the properties: whether, and when, the wait was aborted
                   !.abortedWaiting = flow.pc = "waiting" /\ ~flow.promise.settled,
                   !.abortAt = IF flow.pc = "waiting" /\ ~flow.promise.settled
                               THEN now ELSE @]
    /\ UNCHANGED <<now, ticks, options, manager, file, lastAuth, written, pc, call>>

\* variant: the exchange names the last configured redirect URI
tokenBody_LastRedirectUri(credentials, authCode) ==
    [ client_id |-> credentials.client_id,
      client_secret |-> credentials.client_secret,
      code |-> authCode,
      grant_type |-> "authorization_code",
      redirect_uri |-> credentials.redirect_uris[Len(credentials.redirect_uris)] ]

\* getToken: the form fields of the code-exchange request; redirectUri is
\* this.credentials.redirect_uris[0]
tokenBody(credentials, authCode) ==
    [ client_id |-> credentials.client_id,
      client_secret |-> credentials.client_secret,
      code |-> authCode,
      grant_type |-> "authorization_code",
      redirect_uri |-> credentials.redirect_uris[1] ]

\* getToken, resumed with the value of the wait: the finally block, then either
\* return null or send the code to the token endpoint
WaitContinues ==
    /\ pc = "auth"
    /\ ContinuationPending
    /\ LET authCode == flow.promise.value
           closed == [flow EXCEPT !.authCode = authCode, !.server = finallyClose(@)]
       IN  IF authCode = NoCode
           THEN /\ flow' = [closed EXCEPT !.pc = "done", !.result = Null]
                /\ callbackSettled(Null)
           ELSE /\ flow' = [closed EXCEPT
                               !.pc = "exchanging",
                               !.exchanges = @ + 1,
                               !.exchange = tokenBody(auth.credentials, authCode)]
                /\ UNCHANGED <<pc, call, file, lastAuth, written>>
    /\ UNCHANGED <<now, ticks, options, manager, auth>>

\* variant: a rejected fetch is not caught
exchangeCode_Rethrow(outcome, body) ==
    CASE outcome = "ok"              -> body
      [] outcome = "transport_error" -> Throw
      [] OTHER                       -> Null

\* getToken's code exchange: the response body on success, null on any failure
exchangeCode(outcome, body) == IF outcome = "ok" THEN body ELSE Null

\* getToken, resumed when the fetch of the token endpoint settles
ExchangeSettles ==
    /\ pc = "auth"
    /\ flow.pc = "exchanging"
    /\ \E response \in RefreshResponses :
          LET tokenResponse == exchangeCode(response.outcome, response.body)
          IN  /\ flow' = [flow EXCEPT !.pc = "done", !.result = tokenResponse,
                                      !.exchangeOutcome = response.outcome]
              /\ callbackSettled(tokenResponse)
    /\ UNCHANGED <<now, ticks, options, manager, auth>>

\* time passes while getToken starts the listener, opens the browser and waits
FlowTick ==
    /\ flow.pc \in {"starting", "opening", "waiting"}
    /\ Tick

Next ==
    \/ Tick
    \/ SaveToken
    \/ DeleteStoredToken
    \/ GetTokenInfo
    \/ RefreshToken
    \/ GetValidTokenCall
    \/ RefreshSettles
    \/ CallbackSettles

Spec == Init /\ [][Next]_vars

\* the token file left by earlier runs, at the path authenticateOAuth will use
FlowFiles ==
    {NoFile, Malformed}
    \cup {f \in PriorFiles : Has(f, "created_at") \/ ~Has(f, "refresh_token")}

\* one run of a program that calls authenticateOAuth once; the program has no
\* store object of its own (new OAuthTokenManager() without a directory raises)
FlowInit ==
    /\ now = Epoch
    /\ ticks = 0
    /\ options \in NoDirectoryOptions
    /\ manager = constructor(options)
    /\ file \in FlowFiles
    /\ lastAuth = {}
    /\ written = FALSE
    /\ pc = "idle"
    /\ call = NoCall
    /\ auth = NoAuth
    /\ flow = NoFlow

FlowNext ==
    \/ AuthenticateOAuthCall
    \/ RefreshSettles
    \/ CallbackStarts
    \/ ListenerSettles
    \/ BrowserSettles
    \/ RedirectRequest
    \/ TimerFires
    \/ Abort
    \/ WaitContinues
    \/ ExchangeSettles
    \/ FlowTick

FlowSpec == FlowInit /\ [][FlowNext]_vars

\* the event loop runs a due timer and a ready continuation
FairFlowSpec ==
    /\ FlowSpec
    /\ WF_vars(TimerFires)
    /\ WF_vars(WaitContinues)

TypeOK ==
    /\ pc \in {"idle", "refresh", "auth"}
    /\ ticks \in 0..MaxTicks
    /\ manager = constructor(options)

----------------------------------------------------------------------------
(* Properties of getValidToken *)

\* a getValidToken call is in progress or has just returned
InGetValidToken == call.op = "getValidToken"
Returned == InGetValidToken /\ pc = "idle"

IsToken(v) == v \notin {Null, Throw, Pending}

Count(seq, e) == Cardinality({i \in DOMAIN seq : seq[i] = e})

\* the stored token at the entry of the call
PreStored == getStoredToken(call.preFile)
PreExpired ==
    /\ PreStored # Null
    /\ \/ ~Has(PreStored, "expires_at")
       \/ call.preNow >= PreStored.expires_at - manager.expirationBuffer
       \/ /\ Has(manager, "maxTokenLifetime") /\ Has(PreStored, "created_at")
          /\ call.preNow >= PreStored.created_at + manager.maxTokenLifetime
                               - manager.expirationBuffer
PreValid == PreStored # Null /\ ~PreExpired
PreHasRefresh == PreStored # Null /\ Has(PreStored, "refresh_token")

RefreshFailed == call.refreshOutcome \in {"http_error", "transport_error", "bad_body"}
RefreshSucceeded == call.refreshOutcome = "ok"

\* C1: getValidToken called while the stored token is present and not expired
\* returns exactly the stored record, writes nothing to the store, sends no
\* refresh request and does not invoke the authentication callback.
C1_NoOpOnValidToken ==
    (InGetValidToken /\ PreValid) =>
        /\ pc = "idle"
        /\ call.ret = PreStored
        /\ file = call.preFile
        /\ call.events = << >>

C1_Witness ==
    /\ Returned /\ PreValid /\ call.hasCallback
    /\ Has(PreStored, "refresh_token")
    /\ IsToken(call.ret)

\* C2: getValidToken called while the stored token is expired and carries a
\* refresh token attempts the refresh before any call of the authentication
\* callback; when the refresh succeeds the new token is persisted via save and
\* returned, and the callback is not invoked in that call.
C2_RefreshBeforeCallback ==
    (InGetValidToken /\ PreExpired /\ PreHasRefresh) =>
        /\ call.events # << >> /\ call.events[1] = "refresh"
        /\ RefreshSucceeded =>
              /\ pc = "idle"
              /\ IsToken(call.ret)
              /\ call.ret.access_token = call.refreshed.access_token
              /\ file = saveToken(manager, call.ret, now)
              /\ call.events = <<"refresh", "save">>

C2_Witness ==
    /\ Returned /\ PreExpired /\ PreHasRefresh /\ call.hasCallback
    /\ RefreshSucceeded /\ file # call.preFile

\* C3: whenever the refresh exchange of getValidToken succeeds with a response
\* that has no refresh_token, the record saved and the token returned carry the
\* refresh_token of the previously stored record; when the response has a
\* refresh_token, the response's value is the one saved.
C3_RefreshTokenCarryForward ==
    (Returned /\ RefreshSucceeded) =>
        LET expected == IF Has(call.refreshed, "refresh_token")
                        THEN call.refreshed.refresh_token
                        ELSE PreStored.refresh_token
            stored == getStoredToken(file)
        IN  /\ Has(stored, "refresh_token") /\ stored.refresh_token = expected
            /\ Has(call.ret, "refresh_token") /\ call.ret.refresh_token = expected

C3_Witness ==
    /\ Returned /\ RefreshSucceeded
    /\ ~Has(call.refreshed, "refresh_token")
    /\ getStoredToken(file).refresh_token = PreStored.refresh_token

C3_WitnessRotated ==
    /\ Returned /\ RefreshSucceeded
    /\ Has(call.refreshed, "refresh_token")
    /\ call.refreshed.refresh_token # PreStored.refresh_token

\* C4: whenever no stored token exists, or the stored token is expired without
\* a refresh token, or the refresh exchange failed, and a callback was supplied,
\* the callback is invoked; a token it yields is persisted via save and
\* returned (without a maximum lifetime, expires_at = created_at +
\* expires_in*1000); if it yields absent, getValidToken returns absent; the
\* callback is never retried.
C4_CallbackFallback ==
    (InGetValidToken /\ call.hasCallback
       /\ (PreStored = Null \/ (PreExpired /\ ~PreHasRefresh) \/ RefreshFailed)) =>
        /\ Count(call.events, "callback") = 1
        /\ (pc = "idle" /\ IsToken(call.callbackResult)) =>
              LET stored == getStoredToken(file)
              IN  /\ call.ret = call.callbackResult
                  /\ file = saveToken(manager, call.callbackResult, now)
                  /\ stored.access_token = call.callbackResult.access_token
                  /\ ~Has(manager, "maxTokenLifetime") =>
                        stored.expires_at = stored.created_at + call.ret.expires_in * 1000
        /\ (pc = "idle" /\ call.callbackResult = Null) =>
              /\ call.ret = Null
              /\ file = call.preFile

C4_Witness ==
    /\ Returned /\ call.hasCallback /\ RefreshFailed
    /\ IsToken(call.callbackResult)
    /\ ~Has(manager, "maxTokenLifetime")
    /\ getStoredToken(file).expires_at = getStoredToken(file).created_at + 7200 * 1000

C4_WitnessAbsent ==
    /\ Returned /\ call.hasCallback /\ PreStored = Null
    /\ call.callbackResult = Null /\ call.ret = Null

\* C5: when the stored token is expired, its refresh exchange fails (non-2xx
\* status or transport error) and no callback is supplied, getValidToken
\* returns absent and raises no exception.
C5_FallbackChainCompleteness ==
    (InGetValidToken /\ ~call.hasCallback /\ PreExpired /\ RefreshFailed) =>
        /\ pc = "idle"
        /\ call.ret = Null

C5_Witness ==
    /\ Returned /\ ~call.hasCallback /\ PreExpired
    /\ call.refreshOutcome = "transport_error"
    /\ call.ret = Null

----------------------------------------------------------------------------
(* Properties of the maximum lifetime and of expiry *)

Stored == getStoredToken(file)

\* C6: with maxTokenLifetimeHours = H configured and a refresh token that still
\* works, once H hours have elapsed since the interactive authorization,
\* getValidToken does not obtain a token by silently refreshing (it requires
\* the authentication callback); refreshes do not push the deadline forward.
C6_MaxLifetimeForcesReauth ==
    \A authorizedAt \in lastAuth :
        (InGetValidToken /\ call.hasCallback /\ Has(manager, "maxTokenLifetime")
           /\ call.preNow >= authorizedAt + manager.maxTokenLifetime) =>
            ~RefreshSucceeded

C8_ExpiryWithoutPolicy ==
    (manager # Throw /\ hasStoredToken(file) /\ ~Has(manager, "maxTokenLifetime")
                     /\ Has(Stored, "expires_at")) =>
        (isTokenExpired(manager, Stored, now) <=>
            now >= Stored.expires_at - manager.expirationBuffer)

\* inside the buffer window: not yet at expires_at, but reported expired
C8_Witness ==
    /\ manager # Throw
    /\ hasStoredToken(file) /\ ~Has(manager, "maxTokenLifetime") /\ Has(Stored, "expires_at")
    /\ now < Stored.expires_at
    /\ now >= Stored.expires_at - manager.expirationBuffer
    /\ isTokenExpired(manager, Stored, now)

C8_WitnessValid ==
    /\ manager # Throw
    /\ hasStoredToken(file) /\ ~Has(manager, "maxTokenLifetime") /\ Has(Stored, "expires_at")
    /\ now > Epoch
    /\ ~isTokenExpired(manager, Stored, now)

\* C9: with a max-lifetime policy, isExpired(record) is true if expires_at is
\* unset; otherwise it is true exactly when (created_at is present and
\* now >= created_at + maxLifetimeMillis - buffer) or (now >= expires_at - buffer).
C9_ExpiryWithPolicy ==
    (hasStoredToken(file) /\ Has(manager, "maxTokenLifetime")) =>
        (isTokenExpired(manager, Stored, now) <=>
            \/ ~Has(Stored, "expires_at")
            \/ /\ Has(Stored, "created_at")
               /\ now >= Stored.created_at + manager.maxTokenLifetime - manager.expirationBuffer
            \/ now >= Stored.expires_at - manager.expirationBuffer)

\* a record saved under another policy: older than the maximum lifetime, its
\* own expires_at not reached
C9_Witness ==
    /\ hasStoredToken(file) /\ Has(manager, "maxTokenLifetime")
    /\ Has(Stored, "expires_at") /\ Has(Stored, "created_at")
    /\ now < Stored.expires_at - manager.expirationBuffer
    /\ now >= Stored.created_at + manager.maxTokenLifetime - manager.expirationBuffer
    /\ isTokenExpired(manager, Stored, now)

C9_WitnessUnset ==
    /\ hasStoredToken(file) /\ Has(manager, "maxTokenLifetime")
    /\ ~Has(Stored, "expires_at")
    /\ isTokenExpired(manager, Stored, now)

----------------------------------------------------------------------------
(* Round trip *)

SameField(a, b, key) ==
    /\ Has(a, key) <=> Has(b, key)
    /\ Has(a, key) => a[key] = b[key]

RoundTripFields(token, stored) ==
    /\ stored # Null
    /\ \A key \in {"access_token", "refresh_token", "token_type", "scope"} :
          SameField(token, stored, key)

\* C10 as stated: for every token t, save(t) followed by getStored() yields a
\* record whose access_token, refresh_token, token_type and scope equal those
\* of t, and whose expires_at is strictly greater than its created_at.
C10_RoundTripOriginal ==
    call.op = "saveToken" =>
        /\ RoundTripFields(call.saved, Stored)
        /\ Stored.expires_at > Stored.created_at

\* C10 amended: for every token t, save(t) followed by getStored() yields a
\* record whose access_token, refresh_token, token_type and scope equal those
\* of t; expires_at is strictly greater than created_at when t.expires_in > 0
\* and equal to created_at when t.expires_in = 0.
C10_RoundTrip ==
    call.op = "saveToken" =>
        /\ RoundTripFields(call.saved, Stored)
        /\ call.saved.expires_in > 0 => Stored.expires_at > Stored.created_at
        /\ call.saved.expires_in = 0 => Stored.expires_at = Stored.created_at

C10_Witness ==
    /\ call.op = "saveToken"
    /\ Has(call.saved, "refresh_token") /\ Has(call.saved, "scope")
    /\ call.saved.expires_in > 0
    /\ Stored.scope = call.saved.scope
    /\ Stored.expires_at > Stored.created_at

----------------------------------------------------------------------------
(* Storage faults *)

StorageFault(f) == f \in {NoFile, Malformed, Unreadable}

\* C11: when the token file is missing, unreadable or holds malformed JSON,
\* getStored returns absent, isValid is false, and getValidToken proceeds as in
\* the NoToken state (straight to the callback, no refresh attempt); none of
\* them raises an exception for such a fault.
C11_StorageFaultsDegrade ==
    /\ StorageFault(file) =>
          /\ getStoredToken(file) = Null
          /\ isTokenValid(manager, file, now) = FALSE
    /\ (InGetValidToken /\ StorageFault(call.preFile)) =>
          /\ call.existingToken = Null
          /\ Count(call.events, "refresh") = 0
          /\ call.events # << >> => call.events[1] = "callback"
          /\ call.hasCallback => call.events # << >>
          /\ ~call.hasCallback => (pc = "idle" /\ call.ret = Null)
          /\ call.ret = Throw => call.callbackResult = Throw

C11_Witness ==
    /\ Returned /\ call.preFile = Malformed /\ call.hasCallback
    /\ call.events = <<"callback", "save">>
    /\ IsToken(call.ret)

C11_WitnessUnreadable ==
    /\ Returned /\ call.preFile = Unreadable /\ ~call.hasCallback
    /\ call.ret = Null /\ file = Unreadable

-----------------------------------------------------------------------------
(* Properties of authenticateOAuth and of the interactive flow *)

InAuth == auth.op = "authenticateOAuth"
AuthReturned == InAuth /\ pc = "idle"
\* what authenticateOAuth returned: null before the token manager exists, else
\* the result of getValidToken
AuthRet == IF auth.ret # Pending THEN auth.ret ELSE call.ret

FlowStarted == flow.pc # "none"
FlowReturned == flow.pc = "done"

\* the token stored when the interactive flow started lacks a refresh token, or
\* there is none (the file is not written between the entry and the callback)
NoStoredRefreshToken ==
    \/ getStoredToken(call.preFile) = Null
    \/ ~TruthyStr(getStoredToken(call.preFile), "refresh_token")

\* C12: whenever authenticateOAuth starts the interactive flow with offline
\* access wanted (includeOfflineAccess not false), no prompt given by the caller,
\* and the stored token absent or without refresh_token, getToken is invoked
\* with prompt = consent and the authorization request, once built, carries
\* prompt=consent (and access_type=offline).
C12_ForcedReconsent ==
    (FlowStarted /\ wantOfflineAccess(auth.opts) /\ ~Has(auth.opts, "prompt")
                 /\ NoStoredRefreshToken) =>
        /\ Has(flow.options, "prompt") /\ flow.options.prompt = "consent"
        /\ flow.authParams # Null =>
              /\ Has(flow.authParams, "prompt") /\ flow.authParams.prompt = "consent"
              /\ Has(flow.authParams, "access_type")

\* the request is built with prompt=consent when no token is stored
C12_Witness ==
    /\ flow.authParams # Null /\ Has(flow.authParams, "prompt")
    /\ flow.authParams.prompt = "consent"
    /\ ~Has(auth.opts, "prompt") /\ ~Has(auth.opts, "includeOfflineAccess")
    /\ call.preFile = NoFile

\* ... and when the stored token has no refresh token
C12_WitnessLacking ==
    /\ flow.authParams # Null /\ Has(flow.authParams, "prompt")
    /\ flow.authParams.prompt = "consent"
    /\ ~Has(auth.opts, "prompt")
    /\ getStoredToken(call.preFile) # Null
    /\ ~Has(getStoredToken(call.preFile), "refresh_token")

\* ... and no prompt is added when a refresh token is stored (refresh failed)
C12_WitnessNotForced ==
    /\ flow.authParams # Null /\ ~Has(flow.authParams, "prompt")
    /\ wantOfflineAccess(auth.opts) /\ ~NoStoredRefreshToken

\* C13: on every exit path of getToken (code received, provider error, timeout,
\* cancellation, bind failure, unexpected error) the callback listener is closed
\* before getToken returns: once the call has returned, and ever after, the
\* listener it started is not open, and a listener that was opened is closed
\* exactly when getToken resumes from the wait.
C13_GuaranteedTeardown ==
    /\ FlowReturned => flow.server \in {"none", "failed", "closed"}
    /\ (InAuth /\ pc = "idle") => flow.server # "listening"
    /\ flow.pc = "exchanging" => flow.server = "closed"
    /\ flow.server = "listening" => flow.pc \in {"opening", "waiting"}

\* getToken returned a token after a code was received, the listener is closed
C13_Witness ==
    /\ FlowReturned /\ flow.first.kind = "code" /\ IsToken(flow.result)
    /\ flow.server = "closed"

C13_WitnessError == FlowReturned /\ flow.first.kind = "error" /\ flow.server = "closed"
C13_WitnessTimeout == FlowReturned /\ flow.first.kind = "timeout" /\ flow.server = "closed"
C13_WitnessAbort == FlowReturned /\ flow.first.kind = "abort" /\ flow.server = "closed"
C13_WitnessBindFailure == FlowReturned /\ flow.server = "failed" /\ flow.result = Null
C13_WitnessNoURL == FlowReturned /\ flow.server = "none" /\ flow.result = Null

\* the timeout has elapsed and nothing has ended the wait
TimerDue ==
    /\ flow.pc = "waiting" /\ ~flow.promise.settled
    /\ flow.timer = "armed" /\ now >= flow.deadline

\* getToken has returned absent, the listener is closed, no code was exchanged
ReturnedAbsent ==
    /\ FlowReturned /\ flow.result = Null
    /\ flow.server = "closed"
    /\ flow.exchanges = 0 /\ flow.exchange = Null

\* C14: if the timeout elapses while the listener has received no request with
\* code or error and no cancellation has occurred, the wait eventually ends; and
\* when it is the timeout that ends it, getToken eventually returns absent with
\* the listener closed and without a code-exchange request.
C14_Timeout ==
    /\ TimerDue ~> (flow.first.kind # "none")
    /\ (flow.first.kind = "timeout") ~> ReturnedAbsent
    /\ [](flow.first.kind = "timeout" => flow.pc \in {"waiting", "done"})

C14_Witness ==
    /\ flow.first.kind = "timeout" /\ ReturnedAbsent
    /\ now = flow.waitStart + flow.options.timeoutSeconds * 1000

\* C15: when the signal is raised while getToken is waiting for the callback,
\* the wait resolves to "no code" at that moment (the timer is cleared, the
\* timeout is not awaited), getToken goes on to close the listener and returns
\* absent, and no code-exchange request is sent.
C15_Cancellation ==
    flow.abortedWaiting =>
        /\ flow.promise.settled /\ flow.promise.value = NoCode
        /\ flow.first.kind = "abort"
        /\ flow.waitEnd = flow.abortAt
        /\ flow.timer = "cleared"
        /\ flow.pc \in {"waiting", "done"}
        /\ flow.exchanges = 0
        /\ FlowReturned => ReturnedAbsent

\* aborted before the timeout was due; getToken has returned absent
C15_Witness ==
    /\ flow.abortedWaiting /\ ReturnedAbsent
    /\ flow.abortAt < flow.deadline
    /\ AuthReturned /\ AuthRet = Null

\* C16: the outcome of the wait is fixed by the first terminal event (request
\* with code, request with error, timeout, abort): the promise holds the value of
\* the first event whatever comes later, getToken resumes with that value, only
\* a first event carrying a code leads to an exchange, of that code, at most
\* once, and a first event without code makes getToken return absent.
C16_FirstEventWins ==
    /\ flow.promise.settled = (flow.first.kind # "none")
    /\ flow.promise.settled => flow.promise.value = flow.first.value
    /\ flow.authCode # "unset" => flow.authCode = flow.first.value
    /\ flow.exchange # Null =>
          /\ flow.first.kind = "code"
          /\ flow.exchange.code = flow.first.value
    /\ flow.exchanges <= 1
    /\ (FlowReturned /\ flow.first.kind \in {"error", "timeout", "abort"}) =>
          flow.result = Null /\ flow.exchanges = 0
    /\ flow.late > 0 => flow.first.kind # "none"

\* a code came first, a later event was delivered, the first code was exchanged
C16_Witness ==
    /\ flow.first = [kind |-> "code", value |-> "c1"]
    /\ flow.late > 0
    /\ FlowReturned /\ IsToken(flow.result)
    /\ flow.exchange.code = "c1"

\* the later event was the abort signal
C16_WitnessLateAbort ==
    /\ flow.first.kind = "code" /\ flow.late > 0 /\ auth.signal = "aborted"
    /\ FlowReturned /\ IsToken(flow.result)

\* the configured timeout, in milliseconds: options.timeoutSeconds || 300
ConfiguredTimeout ==
    (IF TruthyNum(auth.opts, "timeoutSeconds") THEN auth.opts.timeoutSeconds ELSE 300) * 1000

\* C17: measured from the start of getToken, the wait for the callback ends no
\* later than the configured timeout, the time spent starting the listener and
\* opening the browser included.
C17_WithinTimeoutOfStart ==
    flow.first.kind # "none" => flow.waitEnd <= flow.started + ConfiguredTimeout

\* C18: authenticateOAuth returns a token or the absent value and never raises:
\* not for unloadable or invalid credentials, credentials without a usable
\* redirect URI, a bind failure, timeout, cancellation, provider error, failed
\* refresh or failed code exchange.
C18_NeverRaises ==
    /\ InAuth => AuthRet # Throw
    /\ AuthReturned => (AuthRet = Null \/ IsToken(AuthRet))

\* the normalization the claim describes, for a parsed document
normalized(doc, opts) ==
    IF TruthyStr(opts, "credentialsKey")
    THEN IF Has(doc, opts.credentialsKey) THEN doc[opts.credentialsKey] ELSE Undefined
    ELSE IF Has(doc, "installed") THEN doc.installed
    ELSE IF Has(doc, "web") THEN doc.web
    ELSE doc

\* ... followed by the validation of the four required fields
normalizedAndValidated(doc, opts) ==
    IF doc \in {NoFile, Malformed} THEN Null
    ELSE IF hasRequiredFields(normalized(doc, opts)) THEN normalized(doc, opts) ELSE Null

\* C19: credential normalization is the same for a file and for an in-memory
\* object: with a key the credentials are that property of the document, else a
\* nested installed or web object is used, else the document itself; so the
\* credentials authenticateOAuth works with are the normalized ones, whatever
\* the form of the input.
C19_SameNormalization ==
    InAuth => auth.credentials = normalizedAndValidated(auth.source.doc, auth.opts)

\* the key asked for is not a property of the credentials document
KeyMissing ==
    /\ TruthyStr(auth.opts, "credentialsKey")
    /\ auth.source.doc \notin {NoFile, Malformed}
    /\ ~Has(auth.source.doc, auth.opts.credentialsKey)

\* C20: when a required field is missing or empty in the resolved credentials,
\* or the requested key does not exist in the document, authenticateOAuth
\* returns absent at once, without raising, without reading or writing the token
\* store, without starting a listener and without any network request.
C20_CredentialValidation ==
    (InAuth /\ (KeyMissing \/ auth.resolved = Null \/ ~hasRequiredFields(auth.resolved))) =>
        /\ pc = "idle" /\ AuthRet = Null
        /\ auth.storeReads = 0 /\ file = call.preFile /\ ~written
        /\ ~FlowStarted /\ flow.server = "none"
        /\ call.events = << >> /\ flow.exchanges = 0

-----------------------------------------------------------------------------
(* Further properties of the token store *)

\* C21: refreshToken called on its own returns absent on a non-success status,
\* a transport failure or a malformed body, returns the response body on
\* success, never raises, and in every outcome leaves the token file as it was.
C21_RefreshLeavesStore ==
    call.op = "refreshToken" =>
        /\ pc = "idle"
        /\ call.ret # Throw
        /\ call.refreshOutcome \in {"http_error", "transport_error", "bad_body"} => call.ret = Null
        /\ call.refreshOutcome = "ok" => (call.ret \in OAuthToken /\ call.ret = call.refreshed)
        /\ file = call.preFile
        /\ call.saved = Null

\* a failed refresh over a stored record
C21_Witness ==
    /\ call.op = "refreshToken" /\ call.refreshOutcome = "http_error" /\ call.ret = Null
    /\ getStoredToken(file) # Null /\ Has(getStoredToken(file), "refresh_token")

\* a successful refresh: the store still holds the old access token
C21_WitnessSuccess ==
    /\ call.op = "refreshToken" /\ call.refreshOutcome = "ok"
    /\ getStoredToken(file) # Null
    /\ getStoredToken(file).access_token # call.ret.access_token

\* C22: a stored record leaves the store only by an explicit delete: no step of
\* getValidToken, refreshToken, getTokenInfo, saveToken or of time makes an
\* existing file missing.  deleteStoredToken removes the file when there is one
\* and does nothing, without error, when there is none; after it hasStoredToken
\* and isTokenValid are false and a second delete changes nothing.
C22_Lifecycle ==
    /\ [][(hasStoredToken(file) /\ ~hasStoredToken(file')) =>
              call'.op = "deleteStoredToken"]_vars
    /\ [](call.op = "deleteStoredToken" =>
              /\ ~hasStoredToken(file)
              /\ ~isTokenValid(manager, file, now)
              /\ getTokenInfo(manager, file, now) = [exists |-> FALSE, valid |-> FALSE]
              /\ call.ret = Null
              /\ deleteStoredToken(file) = file)

\* a valid record was deleted
C22_Witness ==
    /\ call.op = "deleteStoredToken"
    /\ isTokenValid(manager, call.preFile, now)
    /\ file = NoFile

\* delete with nothing stored
C22_WitnessAbsent == call.op = "deleteStoredToken" /\ call.preFile = NoFile /\ file = NoFile

\* getTokenInfo reported an expired record, which is still there
C22_WitnessInfo ==
    /\ call.op = "getTokenInfo" /\ call.ret.exists /\ ~call.ret.valid
    /\ file = call.preFile /\ hasStoredToken(file)

\* an operation that saved a token has just returned (no time has passed since)
JustSaved == pc = "idle" /\ call.saved # Null

\* C23: every save replaces the whole record: the file holds exactly the fields
\* of the saved token plus created_at and expires_at stamped at the save, and
\* nothing else of the previous record.  The saved token is the caller's token,
\* the callback's token as it came, or the refresh response with the old
\* refresh_token added when it has none; so after a re-authorization whose token
\* has no refresh_token the record has none, whatever was stored before.
C23_WholesaleOverwrite ==
    /\ JustSaved =>
          /\ DOMAIN file = DOMAIN call.saved \cup {"created_at", "expires_at"}
          /\ \A k \in DOMAIN call.saved : file[k] = call.saved[k]
          /\ file.created_at = now
    /\ (JustSaved /\ InGetValidToken /\ call.callbackResult \notin {Pending, Null, Throw}) =>
          /\ call.saved = call.callbackResult
          /\ Has(file, "refresh_token") = Has(call.callbackResult, "refresh_token")
    /\ (JustSaved /\ InGetValidToken /\ call.refreshOutcome = "ok") =>
          \A k \in DOMAIN call.saved \ {"refresh_token"} : call.saved[k] = call.refreshed[k]

\* the record had a refresh token, refresh failed, the callback's token has none:
\* the new record has no refresh token
C23_Witness ==
    /\ JustSaved /\ InGetValidToken /\ PreHasRefresh
    /\ call.callbackResult \in OAuthToken
    /\ ~Has(call.callbackResult, "refresh_token")
    /\ ~Has(file, "refresh_token")

\* a record with a scope is overwritten by a token without: no scope is left
C23_WitnessScope ==
    /\ JustSaved /\ call.op = "saveToken"
    /\ getStoredToken(call.preFile) # Null /\ Has(getStoredToken(call.preFile), "scope")
    /\ ~Has(file, "scope")

-----------------------------------------------------------------------------
(* Further properties of the interactive flow *)

\* C24: when the listener cannot be bound, getToken returns absent in the same
\* step: no authorization URL is built and no browser opened, no wait is begun
\* (no timer, no handlers, no terminal event), and no code exchange is sent;
\* getValidToken and authenticateOAuth return absent and the store is untouched.
C24_BindFailureFatal ==
    flow.server = "failed" =>
        /\ FlowReturned /\ flow.result = Null
        /\ flow.authParams = Null
        /\ flow.timer = "none" /\ ~flow.handler /\ ~flow.abortListener
        /\ flow.first.kind = "none" /\ ~flow.promise.settled
        /\ flow.exchanges = 0 /\ flow.exchange = Null
        /\ AuthReturned /\ AuthRet = Null
        /\ file = call.preFile

\* the bind failed after a failed refresh; the expired record is still stored
C24_Witness ==
    /\ flow.server = "failed" /\ FlowReturned /\ AuthRet = Null
    /\ call.events = <<"refresh", "callback">>
    /\ hasStoredToken(file)

\* C25: a redirect request carrying error ends the wait with no code, and
\* getToken returns absent with the listener closed and the token endpoint not
\* contacted; and when the code exchange gets a non-success status, a transport
\* error (or a body that is not JSON), getToken returns absent, nothing is
\* raised and nothing is stored.
C25_AuthorizationFailures ==
    /\ flow.first.kind = "error" =>
          /\ flow.promise.settled /\ flow.promise.value = NoCode
          /\ flow.pc \in {"waiting", "done"}
          /\ flow.exchanges = 0 /\ flow.exchange = Null
          /\ FlowReturned => (flow.result = Null /\ flow.server = "closed" /\ AuthRet = Null)
    /\ flow.exchangeOutcome \in {"http_error", "transport_error", "bad_body"} =>
          /\ FlowReturned /\ flow.result = Null
          /\ flow.first.kind = "code" /\ flow.exchange.code = flow.authCode
          /\ AuthReturned /\ AuthRet = Null
          /\ file = call.preFile

\* the provider reported an error
C25_Witness == flow.first.kind = "error" /\ FlowReturned /\ AuthReturned /\ AuthRet = Null

\* the code was captured, the token endpoint answered with an error status
C25_WitnessExchange == flow.exchangeOutcome = "http_error" /\ flow.authCode = "c1" /\ AuthRet = Null

C25_WitnessTransport == flow.exchangeOutcome = "transport_error" /\ AuthRet = Null

C26_WitnessConstruction ==
    /\ InAuth /\ Has(auth.opts, "tokenDirectory")
    /\ manager # Throw /\ options.tokenDirectory = "dir"

\* the construction without a directory raised
C26_WitnessRaised == manager = Throw /\ options = [tokenDirectory |-> ""]

\* C27: a request to the listener that carries neither a code nor an error is
\* not a terminal event: as long as no code/error request, timeout or
\* cancellation has occurred, getToken is still waiting after it, with the
\* promise unsettled, no code captured, the timer armed and the listener open;
\* and the handler's step for such a request changes nothing else.
C27_OtherRequestsIgnored ==
    /\ [](flow.ignored > 0 /\ flow.first.kind = "none" =>
              /\ flow.pc = "waiting" /\ ~flow.promise.settled
              /\ flow.authCode = "unset" /\ flow.result = Pending
              /\ flow.timer = "armed" /\ flow.handler /\ flow.server = "listening"
              /\ pc = "auth" /\ file = call.preFile)
    /\ [][flow.ignored' # flow.ignored =>
              /\ flow' = [flow EXCEPT !.ignored = @ + 1]
              /\ UNCHANGED <<now, options, manager, file, lastAuth, written, pc, call, auth>>]_vars

\* a request without code and error came first, the code after it was captured
\* and exchanged
C27_Witness ==
    /\ flow.ignored > 0 /\ flow.first.kind = "code" /\ flow.waitEnd = flow.waitStart
    /\ FlowReturned /\ AuthRet \in OAuthToken

\* the wait goes on after such a request
C27_WitnessWaiting == flow.ignored > 0 /\ flow.first.kind = "none" /\ flow.pc = "waiting"

\* after such a request the timeout ends the wait
C27_WitnessTimeout ==
    flow.ignored > 0 /\ flow.first.kind = "timeout" /\ AuthReturned /\ AuthRet = Null

\* C28: whenever the interactive flow is started for a caller who gave a prompt,
\* the options of getToken and the authorization request carry exactly that
\* prompt, whatever is stored; and when the caller passed includeOfflineAccess:
\* false, the request has no access_type parameter and no prompt other than the
\* caller's (none if the caller gave none).
C28_ExplicitChoicesKept ==
    /\ (FlowStarted /\ Has(auth.opts, "prompt")) =>
          /\ Has(flow.options, "prompt") /\ flow.options.prompt = auth.opts.prompt
          /\ flow.authParams # Null =>
                (Has(flow.authParams, "prompt") /\ flow.authParams.prompt = auth.opts.prompt)
    /\ (FlowStarted /\ Has(auth.opts, "includeOfflineAccess")
                    /\ ~auth.opts.includeOfflineAccess) =>
          /\ ~flow.options.includeOfflineAccess
          /\ Has(flow.options, "prompt") => Has(auth.opts, "prompt")
          /\ flow.authParams # Null =>
                /\ ~Has(flow.authParams, "access_type")
                /\ Has(flow.authParams, "prompt") => Has(auth.opts, "prompt")

\* the caller asked for select_account and offline access while the stored
\* record has no refresh token: the request says select_account, not consent
C28_Witness ==
    /\ FlowStarted /\ Has(auth.opts, "prompt") /\ wantOfflineAccess(auth.opts)
    /\ NoStoredRefreshToken
    /\ flow.authParams # Null /\ flow.authParams.prompt = "select_account"

\* offline access disabled, no prompt given, nothing stored: the request has
\* neither access_type nor prompt
C28_WitnessOnline ==
    /\ FlowStarted /\ ~wantOfflineAccess(auth.opts) /\ ~Has(auth.opts, "prompt")
    /\ ~hasStoredToken(call.preFile)
    /\ flow.authParams # Null
    /\ ~Has(flow.authParams, "access_type") /\ ~Has(flow.authParams, "prompt")

-----------------------------------------------------------------------------
(* Further properties of getValidToken *)

\* C29: whenever getValidToken has returned a token (the stored one, a
\* refreshed one or the callback's), the record in the store at that time is
\* readable and has the same access_token and the same refresh_token (both
\* present or both absent) as the returned token.
C29_ReturnedMatchesStore ==
    (Returned /\ IsToken(call.ret)) =>
        /\ Stored \notin {Null, Throw}
        /\ SameField(Stored, call.ret, "access_token")
        /\ SameField(Stored, call.ret, "refresh_token")

\* a refresh whose response had no refresh token: the returned token and the
\* record both carry the previous one
C29_Witness ==
    /\ Returned /\ IsToken(call.ret) /\ call.events = <<"refresh", "save">>
    /\ ~Has(call.refreshed, "refresh_token")
    /\ Has(call.ret, "refresh_token") /\ Stored.refresh_token = call.ret.refresh_token
    /\ Stored.access_token = call.ret.access_token

\* the callback's token has no refresh token: neither has the record
C29_WitnessCallback ==
    /\ Returned /\ IsToken(call.ret) /\ call.callbackResult = call.ret
    /\ ~Has(call.ret, "refresh_token") /\ ~Has(Stored, "refresh_token")

\* the stored token was still valid and is returned as it is
C29_WitnessReuse ==
    /\ Returned /\ IsToken(call.ret) /\ call.events = << >> /\ ~written
    /\ Has(call.ret, "refresh_token")

\* C30: whenever getValidToken has returned absent, the token file is what it
\* was when the call began and the call saved nothing: an expired record is
\* still stored, with its refresh token if it had one.
C30_AbsentLeavesStore ==
    (Returned /\ call.ret = Null) =>
        /\ file = call.preFile
        /\ "save" \notin {call.events[i] : i \in DOMAIN call.events}
        /\ PreHasRefresh => (Stored # Null /\ SameField(Stored, PreStored, "refresh_token"))

\* the record had expired, the refresh failed and the callback yielded no token:
\* the record and its refresh token are still there
C30_Witness ==
    /\ Returned /\ call.ret = Null /\ PreHasRefresh
    /\ call.events = <<"refresh", "callback">> /\ call.callbackResult = Null
    /\ hasStoredToken(file) /\ Has(Stored, "refresh_token")
    /\ isTokenExpired(manager, Stored, now)

\* an expired record without refresh token and no callback
C30_WitnessNoCallback ==
    /\ Returned /\ call.ret = Null /\ ~call.hasCallback
    /\ call.events = << >> /\ hasStoredToken(file) /\ ~Has(Stored, "refresh_token")

\* C31: whenever getValidToken has just saved and returned a token (of a
\* positive expires_in) obtained by refresh or from the callback, and no time
\* has passed since the save, the
\* stored token is valid and a second getValidToken would return it without a
\* refresh request and without the callback.
C31_FreshTokenValid ==
    (Returned /\ IsToken(call.saved) /\ call.saved.expires_in > 0
              /\ Stored # Null /\ Stored.created_at = now) =>
        /\ isTokenValid(manager, file, now)
        /\ firstStep(manager, Stored, now, TRUE) = "return"

-----------------------------------------------------------------------------
(* Further properties of the wait *)

\* C32: when the signal was raised before getToken reached the waiting step
\* (before getToken was called, while the listener was starting or while the
\* browser was being opened), getToken does not wait: it is never in the
\* waiting step with the wait unsettled, the wait is ended neither by a code
\* nor by the timeout, no code is exchanged, and the result is no token.
C32_AbortedBeforeWait ==
    (auth.abortedBeforeWait /\ FlowStarted) =>
        /\ flow.pc = "waiting" => flow.promise.settled
        /\ flow.first.kind \notin {"code", "error", "timeout"}
        /\ flow.exchanges = 0
        /\ FlowReturned => ~IsToken(flow.result)

\* C33: a request carrying a code that reaches the bound listener before any
\* terminal event, also while the browser is being opened, is captured: it is
\* the first event of the wait, its code settles the wait and is the one
\* exchanged.
C33_NoRedirectLost ==
    flow.unheard # NoCode =>
        /\ flow.first = [kind |-> "code", value |-> flow.unheard]
        /\ flow.promise = [settled |-> TRUE, value |-> flow.unheard]
        /\ flow.exchanges > 0 => flow.exchange.code = flow.unheard

-----------------------------------------------------------------------------
(* Further properties of one call *)

\* C34: one call of getValidToken sends at most one refresh request, invokes
\* the callback at most once and saves at most once, in this order; when it has
\* returned, it has saved exactly if it returned a token it got from the
\* refresh or from the callback (and then the token file is that save), and
\* otherwise the token file is what it was when the call began.
C34_AtMostOnce ==
    InGetValidToken =>
        /\ Count(call.events, "refresh") <= 1
        /\ Count(call.events, "callback") <= 1
        /\ Count(call.events, "save") <= 1
        /\ call.events \in { << >>, <<"refresh">>, <<"callback">>, <<"refresh", "save">>,
                              <<"callback", "save">>, <<"refresh", "callback">>,
                              <<"refresh", "callback", "save">> }
        /\ Returned =>
              /\ Count(call.events, "save") = 1 <=>
                    (IsToken(call.ret) /\ call.ret \in {call.refreshed, call.callbackResult,
                                  preserveRefreshToken(call.refreshed, call.existingToken)}
                                     /\ call.events # << >>)
              /\ Count(call.events, "save") = 1 =>
                    file = saveToken(manager, call.ret, Stored.created_at)
              /\ Count(call.events, "save") = 0 => file = call.preFile

\* the refresh failed, the callback was invoked once and its token saved once
C34_Witness ==
    /\ Returned /\ call.events = <<"refresh", "callback", "save">>
    /\ IsToken(call.ret) /\ file # call.preFile

\* the stored token was returned as it is: no request, no callback, no write
C34_WitnessReuse ==
    /\ Returned /\ IsToken(call.ret) /\ call.events = << >> /\ file = call.preFile
    /\ call.hasCallback

\* the callback yielded no token and is not invoked again
C34_WitnessNoRetry ==
    /\ Returned /\ call.ret = Null /\ call.callbackResult = Null
    /\ Count(call.events, "callback") = 1 /\ Count(call.events, "save") = 0

-----------------------------------------------------------------------------
(* Further properties of the code exchange *)

\* C35: getToken sends the code-exchange request at most once per call, only
\* after a code has been captured and with the listener already closed; the
\* request carries the captured code (the one of the first event of the wait)
\* and the redirect URI of the authorization URL, which is the first configured
\* one.
C35_ExchangeOrdering ==
    /\ flow.exchanges <= 1
    /\ flow.exchanges = 1 <=> flow.exchange # Null
    /\ flow.exchange # Null =>
          /\ flow.first.kind = "code"
          /\ flow.exchange.code = flow.first.value /\ flow.exchange.code = flow.authCode
          /\ flow.server = "closed"
          /\ flow.pc \in {"exchanging", "done"}
          /\ flow.authParams # Null
          /\ flow.exchange.redirect_uri = flow.authParams.redirect_uri
          /\ flow.exchange.redirect_uri = auth.credentials.redirect_uris[1]
          /\ flow.exchange.grant_type = "authorization_code"
    /\ flow.pc = "exchanging" => flow.exchanges = 1

\* two redirect URIs are configured and a second request came after the code c2
\* was captured: c2 and the first URI are exchanged, a token is returned
C35_Witness ==
    /\ FlowReturned /\ IsToken(flow.result) /\ flow.exchanges = 1
    /\ Len(auth.credentials.redirect_uris) = 2
    /\ flow.exchange.redirect_uri = "http://localhost:8080"
    /\ flow.exchange.code = "c2" /\ flow.late > 0

\* no code, no exchange
C35_WitnessNone == FlowReturned /\ flow.first.kind = "timeout" /\ flow.exchanges = 0

-----------------------------------------------------------------------------
(* Further properties of the settings *)

\* C36: the store applies every given numeric setting, zero included: its
\* buffer is expirationBufferMinutes minutes when that is given (5 minutes only
\* when it is not), it has a lifetime cap of maxTokenLifetimeHours hours
\* exactly when that is given, and with a given buffer of zero and no cap a
\* stored token is expired exactly from its expires_at on.
C36_ZeroHonoured ==
    manager # Throw =>
        /\ manager.expirationBuffer =
              (IF Has(options, "expirationBufferMinutes")
               THEN options.expirationBufferMinutes ELSE 5) * 60 * 1000
        /\ Has(manager, "maxTokenLifetime") <=> Has(options, "maxTokenLifetimeHours")
        /\ Has(options, "maxTokenLifetimeHours") =>
              manager.maxTokenLifetime = options.maxTokenLifetimeHours * 60 * 60 * 1000
        /\ ( /\ Has(options, "expirationBufferMinutes")
             /\ options.expirationBufferMinutes = 0
             /\ ~Has(options, "maxTokenLifetimeHours")
             /\ hasStoredToken(file) /\ Has(Stored, "expires_at") ) =>
                (isTokenExpired(manager, Stored, now) <=> now >= Stored.expires_at)

====
